---------------------------- MODULE Spec2Model ----------------------------
(***************************************************************************)
(* A model of revamb's src/main.cpp: the uniqued worklist containers       *)
(* (UniquedQueue, UniquedStack) and the command-line driver (parseArgs,    *)
(* loadPTCLibrary, ReadWholeInput, main).                                  *)
(*                                                                         *)
(* The containers are instantiated on a pointer type (insert dereferences  *)
(* Element->getParent()).  The model runs the same call sequence on two    *)
(* instances, Inst = {1, 2}, that see the same logical blocks at different *)
(* pointer values, so that std::set<T> orders them differently.            *)
(*                                                                         *)
(* Translate, which main calls, is defined outside src/main.cpp; the       *)
(* translation engine behind it is modelled from the specification.        *)
(*                                                                         *)
(* Specifications: Spec (one run of main), SpecRead (main on inputs around *)
(* MAX_INPUT_BUFFER), SpecWorklist (calls on one container object) and     *)
(* SpecEngine (one run of the translation engine).                         *)
(***************************************************************************)
EXTENDS Integers, Sequences, FiniteSets

\* ------------------------------------------------------------- bounds

\* Number of logical blocks (elements) the calls draw from.
NumBlocks == 3

\* Longest -o argument the runs draw.
MaxStrLen == 2

\* Number of instruction addresses of the region the engine translates.
CodeLen == 3

\* ------------------------------------------------------ container model

VARIABLES
  kind,     \* "queue": the object is a UniquedQueue; "stack": a UniquedStack
  ndebug,   \* TRUE iff the build defines NDEBUG (assert compiles to nothing)
  wl,       \* wl[i]: the object of instance i: its fields Set and Queue, and
            \* Under, Status, Result (see EmptyObject)
  call,     \* the member function called last and its argument
  hist      \* history: hist[i].accepted, hist[i].popped, hist[i].reversed

\* ----------------------------------------------------------- main model

VARIABLES
  args,         \* what argparse_parse leaves: Architecture, OffsetString,
                \* DebugString (each a string or null) and the count Argc of
                \* positional arguments
  pc,           \* the statement of main about to run
  Parameters,   \* main's ProgramParameters
  ret,          \* main's return value, Running until it returns
  err,          \* the message written to stderr, "" if none
  PTCLibrary,   \* whether the library handle is loaded (non-null)
  OutputFile,   \* whether OutputFile.open has been called
  Code,         \* Code.size()
  input,        \* the bytes of the input stream not read yet
  rd,           \* ReadWholeInput's locals ReadBytes and TotalReadBytes
  translate     \* the call of Translate, if made: its arguments

mainvars ==
  <<args, pc, Parameters, ret, err, PTCLibrary, OutputFile, Code, input, rd, translate>>

\* --------------------------------------------------------- engine model

VARIABLES
  prog,        \* the region: the instruction at each address
  arena,       \* the blocks of the Function, in order of creation: entry,
               \* ops (the address each operation came from) and term (what
               \* closed the block)
  blockAt,     \* the address->block map: arena index by entry address
  addrStack,   \* the LIFO address stack, a UniquedStack
  addrQueue,   \* the FIFO address queue, a UniquedQueue
  pending,     \* the PendingEdges: source block, target address, kind
  resolved,    \* the edges after the resolution pass, with the block they
               \* lead to
  diag,        \* the diagnostics, each with the addresses that were in the
               \* worklist when it was recorded
  phase,       \* "translate" until the resolution pass has run, then "done"
  last         \* what the last step did, and at which address

engvars ==
  <<prog, arena, blockAt, addrStack, addrQueue, pending, resolved, diag, phase, last>>

Inst == {1, 2}
Blocks == 1 .. NumBlocks

\* The pointer value of logical block b in instance i: increasing with b in
\* instance 1, decreasing in instance 2.
Addr(i, b) == IF i = 1 THEN 8 * b ELSE 8 * (NumBlocks + 1 - b)

\* A pointer value that is no block's: what a read outside the container's
\* elements may yield besides a stale block pointer.
GarbagePtr == 4

\* No pop has returned yet (or the last one did not return).
NoResult == 0

\* The outcome of an out-of-bounds access that faults instead of reading.
Crash == -1

Pointers(i) == {Addr(i, b) : b \in Blocks}

\* The logical block behind a pointer of instance i (0 if there is none).
BlockOf(i, p) == IF p \in Pointers(i) THEN CHOOSE b \in Blocks : Addr(i, b) = p ELSE 0

\* size_t is an unsigned word; TLC's integers are 32 bits wide, so the model
\* keeps the widest word that leaves headroom for one addition.
SizeMod == 2 ^ 30

\* --- std::set<T>: kept as the strictly increasing sequence of its keys

SetCount(S, x) == Cardinality({k \in DOMAIN S : S[k] = x})

SetInsert(S, x) ==
  IF SetCount(S, x) > 0 THEN S
  ELSE SelectSeq(S, LAMBDA y : y < x) \o <<x>> \o SelectSeq(S, LAMBDA y : y > x)

SetErase(S, x) == SelectSeq(S, LAMBDA y : y # x)

RECURSIVE Reverse(_)
Reverse(s) == IF s = <<>> THEN <<>> ELSE Reverse(Tail(s)) \o <<Head(s)>>

Front(s) == SubSeq(s, 1, Len(s) - 1)

Range(s) == {s[k] : k \in DOMAIN s}

\* A freshly constructed container: both members empty.  Under counts how
\* many positions the ordered container's end lies below its begin (0 in
\* every state the source defines).  Status is "ok", "aborted" (a failed
\* assert), "crashed" (an out-of-bounds access that faulted) or "undefined"
\* (an out-of-bounds access that went through: the language defines nothing
\* of the object from there on, and the model makes no further call on it).
EmptyObject == [Set |-> <<>>, Queue |-> <<>>, Under |-> 0, Status |-> "ok",
                Result |-> NoResult]

\* The container's size(): Queue.size(), an unsigned difference of the
\* container's end and begin.
Size(o) == (Len(o.Queue) - o.Under + SizeMod) % SizeMod

\* The container's empty(): Queue.empty(), end = begin.
Empty(o) == Len(o.Queue) = 0 /\ o.Under = 0


\* --- UniquedQueue<T>

\* UniquedQueue::insert without the Set.count test.
UniquedQueue_insert_unchecked(o, Element, parent) ==
  IF ~parent /\ ~ndebug
  THEN [o EXCEPT !.Status = "aborted"]
  ELSE [o EXCEPT !.Set = SetInsert(o.Set, Element),
                 !.Queue = Append(o.Queue, Element)]

\* UniquedQueue::insert.  parent is whether Element->getParent() is non-null
\* at the call.
UniquedQueue_insert(o, Element, parent) ==
  IF SetCount(o.Set, Element) = 0
  THEN IF ~parent /\ ~ndebug
       THEN [o EXCEPT !.Status = "aborted"]
       ELSE [o EXCEPT !.Set = SetInsert(o.Set, Element),
                      !.Queue = Append(o.Queue, Element)]
  ELSE o

\* UniquedQueue::pop taking Queue.back() instead of Queue.front().
UniquedQueue_pop_back(o, ub) ==
  IF Len(o.Queue) > 0
  THEN [o EXCEPT !.Queue = Front(o.Queue),
                 !.Set = SetErase(o.Set, o.Queue[Len(o.Queue)]),
                 !.Result = o.Queue[Len(o.Queue)]]
  ELSE IF ub = Crash
       THEN [o EXCEPT !.Status = "crashed", !.Result = NoResult]
       ELSE [o EXCEPT !.Status = "undefined",
                      !.Under = o.Under + 1,
                      !.Set = SetErase(o.Set, ub),
                      !.Result = ub]

\* UniquedQueue::pop without Set.erase(Result).
UniquedQueue_pop_noerase(o, ub) ==
  IF Len(o.Queue) > 0
  THEN [o EXCEPT !.Queue = Tail(o.Queue),
                 !.Result = Head(o.Queue)]
  ELSE IF ub = Crash
       THEN [o EXCEPT !.Status = "crashed", !.Result = NoResult]
       ELSE [o EXCEPT !.Status = "undefined",
                      !.Under = o.Under + 1,
                      !.Result = ub]

\* UniquedQueue::pop.  Queue.front() and Queue.pop() on an empty std::queue
\* are undefined: ub is what the build makes of it, Crash or the value
\* front() reads outside the container, after which the begin has moved
\* past the end.
UniquedQueue_pop(o, ub) ==
  IF Len(o.Queue) > 0
  THEN [o EXCEPT !.Queue = Tail(o.Queue),
                 !.Set = SetErase(o.Set, Head(o.Queue)),
                 !.Result = Head(o.Queue)]
  ELSE IF ub = Crash
       THEN [o EXCEPT !.Status = "crashed", !.Result = NoResult]
       ELSE [o EXCEPT !.Status = "undefined",
                      !.Under = o.Under + 1,
                      !.Set = SetErase(o.Set, ub),
                      !.Result = ub]

\* --- UniquedStack<T>

\* UniquedStack::insert moving an element that is already held to the top.
UniquedStack_insert_moveToTop(o, Element, parent) ==
  IF ~parent /\ ~ndebug /\ SetCount(o.Set, Element) = 0
  THEN [o EXCEPT !.Status = "aborted"]
  ELSE [o EXCEPT !.Set = SetInsert(o.Set, Element),
                 !.Queue = Append(SelectSeq(o.Queue, LAMBDA y : y # Element), Element)]

\* UniquedStack::insert.
UniquedStack_insert(o, Element, parent) ==
  IF SetCount(o.Set, Element) = 0
  THEN IF ~parent /\ ~ndebug
       THEN [o EXCEPT !.Status = "aborted"]
       ELSE [o EXCEPT !.Set = SetInsert(o.Set, Element),
                      !.Queue = Append(o.Queue, Element)]
  ELSE o

\* UniquedStack::pop taking the bottom of the stack instead of the top.
UniquedStack_pop_front(o, ub) ==
  IF Len(o.Queue) > 0
  THEN [o EXCEPT !.Queue = Tail(o.Queue),
                 !.Set = SetErase(o.Set, Head(o.Queue)),
                 !.Result = Head(o.Queue)]
  ELSE IF ub = Crash
       THEN [o EXCEPT !.Status = "crashed", !.Result = NoResult]
       ELSE [o EXCEPT !.Status = "undefined",
                      !.Under = o.Under + 1,
                      !.Set = SetErase(o.Set, ub),
                      !.Result = ub]

\* UniquedStack::pop.  Queue.back() and Queue.pop_back() on an empty
\* std::vector are undefined: ub as for UniquedQueue_pop, the end moving
\* below the begin.
UniquedStack_pop(o, ub) ==
  IF Len(o.Queue) > 0
  THEN [o EXCEPT !.Queue = Front(o.Queue),
                 !.Set = SetErase(o.Set, o.Queue[Len(o.Queue)]),
                 !.Result = o.Queue[Len(o.Queue)]]
  ELSE IF ub = Crash
       THEN [o EXCEPT !.Status = "crashed", !.Result = NoResult]
       ELSE [o EXCEPT !.Status = "undefined",
                      !.Under = o.Under + 1,
                      !.Set = SetErase(o.Set, ub),
                      !.Result = ub]

\* A reverse that rotates: the top goes to the bottom, the rest keeps its
\* order.
UniquedStack_reverse_rotate(o) ==
  [o EXCEPT !.Queue = IF o.Queue = <<>> THEN <<>>
                      ELSE <<o.Queue[Len(o.Queue)]>> \o Front(o.Queue)]

\* UniquedStack::reverse: std::reverse(Queue.begin(), Queue.end()), which
\* swaps nothing when the end is not above the begin.
UniquedStack_reverse(o) == [o EXCEPT !.Queue = Reverse(o.Queue)]

\* --- history of the calls (what the claims speak of, not program state)

\* accepted: the blocks whose insert passed the Set.count test and that no
\* pop has returned since, oldest first.  popped: the blocks a pop of a
\* non-empty container has returned.  reversed: reverse was called.
EmptyHistory == [accepted |-> <<>>, popped |-> {}, reversed |-> FALSE]

HistInsert(h, o, o2, b) ==
  IF o2.Status = "ok" /\ Len(o2.Set) > Len(o.Set)
  THEN [h EXCEPT !.accepted = Append(h.accepted, b)]
  ELSE h

HistPop(h, i, o, o2) ==
  LET b == BlockOf(i, o2.Result) IN
  [h EXCEPT !.accepted = SelectSeq(h.accepted, LAMBDA y : y # b),
            !.popped = IF Len(o.Queue) > 0 THEN h.popped \cup {b} ELSE h.popped]

\* The blocks instance i holds, in the ordered container's order.
Held(i) == [k \in DOMAIN wl[i].Queue |-> BlockOf(i, wl[i].Queue[k])]

\* The held blocks in the order of their accepted insertions.
HeldByAge(i) == SelectSeq(hist[i].accepted, LAMBDA b : b \in Range(Held(i)))

\* ------------------------------------------------------------ actions

Live(i) == wl[i].Status = "ok"

\* What an out-of-bounds read of instance i may yield: a fault, a value that
\* is no block's, or a stale pointer to a block.  Only a pop of an empty
\* container reads out of bounds.
UBOutcomes(i) ==
  IF Live(i) /\ Len(wl[i].Queue) = 0
  THEN {Crash, GarbagePtr} \cup Pointers(i)
  ELSE {Crash}

\* insert(Element) on the object, Element being block b in every instance.
Insert(b, parent) ==
  /\ \E i \in Inst : Live(i)
  /\ LET new(i) == IF ~Live(i) THEN wl[i]
                   ELSE IF kind = "queue"
                        THEN UniquedQueue_insert(wl[i], Addr(i, b), parent)
                        ELSE UniquedStack_insert(wl[i], Addr(i, b), parent)
     IN /\ wl' = [i \in Inst |-> new(i)]
        /\ hist' = [i \in Inst |->
                      IF Live(i) THEN HistInsert(hist[i], wl[i], new(i), b)
                      ELSE hist[i]]
  /\ call' = <<"insert", b>>
  /\ UNCHANGED <<kind, ndebug, mainvars, engvars>>

\* pop() on the object.
Pop ==
  /\ \E i \in Inst : Live(i)
  /\ \E ub \in [Inst -> UNION {UBOutcomes(i) : i \in Inst}] :
       /\ \A i \in Inst : ub[i] \in UBOutcomes(i)
       /\ LET new(i) == IF ~Live(i) THEN wl[i]
                        ELSE IF kind = "queue"
                             THEN UniquedQueue_pop(wl[i], ub[i])
                             ELSE UniquedStack_pop(wl[i], ub[i])
          IN /\ wl' = [i \in Inst |-> new(i)]
             /\ hist' = [i \in Inst |->
                           IF Live(i) THEN HistPop(hist[i], i, wl[i], new(i))
                           ELSE hist[i]]
  /\ call' = <<"pop", 0>>
  /\ UNCHANGED <<kind, ndebug, mainvars, engvars>>

\* reverse() on the object, which only UniquedStack has.
DoReverse ==
  /\ kind = "stack"
  /\ \E i \in Inst : Live(i)
  /\ wl' = [i \in Inst |-> IF Live(i) THEN UniquedStack_reverse(wl[i]) ELSE wl[i]]
  /\ hist' = [i \in Inst |-> IF Live(i) THEN [hist[i] EXCEPT !.reversed = TRUE]
                             ELSE hist[i]]
  /\ call' = <<"reverse", 0>>
  /\ UNCHANGED <<kind, ndebug, mainvars, engvars>>

wlvars == <<kind, ndebug, wl, call, hist>>

vars == <<wlvars, mainvars, engvars>>

\* ------------------------------------------------- the driver, main()

EXIT_SUCCESS == 0
EXIT_FAILURE == 1

\* main has not returned.
Running == -1
BUF_SIZE == 4096
MAX_INPUT_BUFFER == 10 * 1024 * 1024

\* A const char * that is null or points to a string (a sequence of chars).
nullptr == [null |-> TRUE, s |-> <<>>]
Str(s) == [null |-> FALSE, s |-> s]

\* The characters the -o arguments are made of.
OffsetChars == {"0", "7", "-", "+", " ", "x"}

Strings(chars, n) == UNION {[1 .. k -> chars] : k \in 0 .. n}

IsDigit(c) == c \in {"0", "1", "2", "3", "4", "5", "6", "7", "8", "9"}

DigitVal(c) ==
  CASE c = "0" -> 0 [] c = "1" -> 1 [] c = "2" -> 2 [] c = "3" -> 3
    [] c = "4" -> 4 [] c = "5" -> 5 [] c = "6" -> 6 [] c = "7" -> 7
    [] c = "8" -> 8 [] c = "9" -> 9

RECURSIVE SkipSpace(_)
SkipSpace(s) == IF s # <<>> /\ Head(s) = " " THEN SkipSpace(Tail(s)) ELSE s

\* The value of the longest prefix of digits of s, continuing acc.
RECURSIVE ScanDigits(_, _)
ScanDigits(s, acc) ==
  IF s # <<>> /\ IsDigit(Head(s))
  THEN ScanDigits(Tail(s), 10 * acc + DigitVal(Head(s)))
  ELSE acc

\* sscanf(s, "%lld", &Offset): white space is skipped, then an optional sign
\* and at least one digit are converted, and what follows is left unread.
\* ret is the number of conversions (EOF, -1, when the string ends before
\* one), val the long long stored when ret = 1.
sscanf_lld(s) ==
  LET t == SkipSpace(s)
      signed == t # <<>> /\ Head(t) \in {"-", "+"}
      d == IF signed THEN Tail(t) ELSE t
  IN IF d = <<>> THEN [ret |-> -1, val |-> 0]
     ELSE IF ~IsDigit(Head(d)) THEN [ret |-> 0, val |-> 0]
     ELSE [ret |-> 1,
           val |-> IF signed /\ Head(t) = "-" THEN 0 - ScanDigits(d, 0)
                   ELSE ScanDigits(d, 0)]

strcmp(a, b) == IF a = b THEN 0 ELSE 1

\* a is a prefix of b.
IsPrefix(a, b) == Len(a) <= Len(b) /\ SubSeq(b, 1, Len(a)) = a

\* parseArgs, lines 197-208, comparing only the characters the -g value has
\* (strncmp over strlen(DebugString)).
ParseDebug_prefix(DebugString, DebugInfo) ==
  IF IsPrefix(DebugString, <<"n", "o", "n", "e">>)
  THEN [ok |-> TRUE, DebugInfo |-> "None"]
  ELSE IF IsPrefix(DebugString, <<"a", "s", "m">>)
  THEN [ok |-> TRUE, DebugInfo |-> "OriginalAssembly"]
  ELSE IF IsPrefix(DebugString, <<"p", "t", "c">>)
  THEN [ok |-> TRUE, DebugInfo |-> "PTC"]
  ELSE [ok |-> FALSE, DebugInfo |-> DebugInfo]

\* parseArgs, lines 197-208: the DebugInfoType a -g value selects, or a
\* failure.
ParseDebug(DebugString, DebugInfo) ==
  IF strcmp(<<"n", "o", "n", "e">>, DebugString) = 0
  THEN [ok |-> TRUE, DebugInfo |-> "None"]
  ELSE IF strcmp(<<"a", "s", "m">>, DebugString) = 0
  THEN [ok |-> TRUE, DebugInfo |-> "OriginalAssembly"]
  ELSE IF strcmp(<<"p", "t", "c">>, DebugString) = 0
  THEN [ok |-> TRUE, DebugInfo |-> "PTC"]
  ELSE [ok |-> FALSE, DebugInfo |-> DebugInfo]

\* parseArgs, lines 188-195: the size_t stored for a -o value, or a failure.
ParseOffset(OffsetString, Offset) ==
  LET r == sscanf_lld(OffsetString)
  IN IF r.ret # 1 THEN [ok |-> FALSE, Offset |-> Offset]
     ELSE [ok |-> TRUE, Offset |-> r.val % SizeMod]

Fail(msg, P) == [ret |-> EXIT_FAILURE, err |-> msg, Parameters |-> P]

\* parseArgs after argparse_parse, which has stored the -a value in
\* Parameters->Architecture: the return value, the message printed and the
\* Parameters left.
parseArgs(a, P0) ==
  LET P1 == [P0 EXCEPT !.Architecture = a.Architecture]
      off == IF a.OffsetString.null THEN [ok |-> TRUE, Offset |-> P1.Offset]
             ELSE ParseOffset(a.OffsetString.s, P1.Offset)
      P2 == [P1 EXCEPT !.Offset = off.Offset]
      dbg == IF a.DebugString.null THEN [ok |-> TRUE, DebugInfo |-> P2.DebugInfo]
             ELSE ParseDebug(a.DebugString.s, P2.DebugInfo)
      P3 == [P2 EXCEPT !.DebugInfo = dbg.DebugInfo]
      P4 == [P3 EXCEPT !.InputPath = (a.Argc >= 1), !.OutputPath = (a.Argc = 2)]
  IN IF P1.Architecture.null
     THEN Fail("Please specify the input architecture.", P1)
     ELSE IF ~off.ok THEN Fail("-o parameter is not a number.", P1)
     ELSE IF ~dbg.ok THEN Fail("Unexpected value for the -g parameter.", P2)
     ELSE IF a.Argc > 2 THEN Fail("Too many arguments.", P3)
     ELSE [ret |-> EXIT_SUCCESS, err |-> "", Parameters |-> P4]

\* loadPTCLibrary: dlopen finds the library or not, dlsym finds ptc_load or
\* not, ptc_load returns rc.
loadPTCLibrary(dlopenOk, dlsymOk, rc) ==
  IF ~dlopenOk
  THEN [ret |-> EXIT_FAILURE, err |-> "Couldn't load the PTC library", handle |-> FALSE]
  ELSE IF ~dlsymOk
  THEN [ret |-> EXIT_FAILURE, err |-> "Couldn't find ptc_load", handle |-> TRUE]
  ELSE IF rc # 0
  THEN [ret |-> EXIT_FAILURE, err |-> "Couldn't find PTC functions.", handle |-> TRUE]
  ELSE [ret |-> EXIT_SUCCESS, err |-> "", handle |-> TRUE]

Min(a, b) == IF a < b THEN a ELSE b

\* fread of up to BUF_SIZE bytes from a stream with `left` bytes to go.
fread(left) == Min(BUF_SIZE, left)

\* The -g arguments the runs draw: the three the program names and near
\* misses of them.
DebugStrings ==
  {<<"n", "o", "n", "e">>, <<"a", "s", "m">>, <<"p", "t", "c">>,
   <<>>, <<"a", "s">>, <<"a", "s", "m", "x">>, <<"A", "S", "M">>,
   <<"p", "t", "c", " ">>, <<"n", "o", "n">>}

\* The sizes of the input stream the runs of main draw.
InputSizes == {0, 1, BUF_SIZE, BUF_SIZE + 1}

\* The sizes of the input stream the runs about ReadWholeInput draw: short
\* ones, and ones around the limit.
ReadSizes ==
  {0, BUF_SIZE - 1, BUF_SIZE, MAX_INPUT_BUFFER - BUF_SIZE - 1,
   MAX_INPUT_BUFFER - BUF_SIZE, MAX_INPUT_BUFFER - 1, MAX_INPUT_BUFFER,
   MAX_INPUT_BUFFER + 1, MAX_INPUT_BUFFER + BUF_SIZE}

NoTranslate == [called |-> FALSE, start |-> 0, length |-> 0, debug |-> "Zero"]

\* ProgramParameters Parameters {}: every member zero.  InputPath and
\* OutputPath are kept as whether they are non-null.
ZeroParameters ==
  [Architecture |-> nullptr, InputPath |-> FALSE, OutputPath |-> FALSE,
   Offset |-> 0, DebugInfo |-> "Zero"]

InitMain ==
  /\ args \in [Architecture : {nullptr, Str(<<"a", "r", "m">>)},
               OffsetString : {nullptr} \cup {Str(s) : s \in Strings(OffsetChars, MaxStrLen)},
               DebugString : {nullptr} \cup {Str(s) : s \in DebugStrings},
               Argc : 0 .. 3]
  /\ pc = "parseArgs"
  /\ Parameters = ZeroParameters
  /\ ret = Running
  /\ err = ""
  /\ PTCLibrary = FALSE
  /\ OutputFile = FALSE
  /\ Code = 0
  /\ input \in InputSizes
  /\ rd = [ReadBytes |-> 0, TotalReadBytes |-> 0]
  /\ translate = NoTranslate

\* main, lines 227-229.
Main_parseArgs ==
  /\ pc = "parseArgs"
  /\ LET r == parseArgs(args, Parameters)
     IN /\ Parameters' = r.Parameters
        /\ err' = r.err
        /\ IF r.ret # EXIT_SUCCESS
           THEN pc' = "exit" /\ ret' = EXIT_FAILURE
           ELSE pc' = "loadPTCLibrary" /\ ret' = ret
  /\ UNCHANGED <<args, PTCLibrary, OutputFile, Code, input, rd, translate, wlvars, engvars>>

\* main, lines 232-234, going on whatever loadPTCLibrary returns.
Main_loadPTCLibrary_unchecked ==
  /\ pc = "loadPTCLibrary"
  /\ \E dlopenOk \in BOOLEAN, dlsymOk \in BOOLEAN, rc \in {0, 1, -1} :
       LET r == loadPTCLibrary(dlopenOk, dlsymOk, rc)
       IN /\ PTCLibrary' = r.handle
          /\ err' = r.err
          /\ pc' = "openOutput"
          /\ ret' = ret
  /\ UNCHANGED <<args, Parameters, OutputFile, Code, input, rd, translate, wlvars, engvars>>

\* main, lines 232-234.
Main_loadPTCLibrary ==
  /\ pc = "loadPTCLibrary"
  /\ \E dlopenOk \in BOOLEAN, dlsymOk \in BOOLEAN, rc \in {0, 1, -1} :
       LET r == loadPTCLibrary(dlopenOk, dlsymOk, rc)
       IN /\ PTCLibrary' = r.handle
          /\ err' = r.err
          /\ IF r.ret # EXIT_SUCCESS
             THEN pc' = "exit" /\ ret' = EXIT_FAILURE
             ELSE pc' = "openOutput" /\ ret' = ret
  /\ UNCHANGED <<args, Parameters, OutputFile, Code, input, rd, translate, wlvars, engvars>>

\* main, lines 237-243.
Main_openOutput ==
  /\ pc = "openOutput"
  /\ OutputFile' = Parameters.OutputPath
  /\ pc' = "ReadWholeInput"
  /\ UNCHANGED <<args, Parameters, ret, err, PTCLibrary, Code, input, rd, translate, wlvars, engvars>>

\* ReadWholeInput, lines 52-73, called at main's line 247: the buffer is
\* resized, the stream opened (stdin, when there is no InputPath, is open)
\* and read once.  input is the number of bytes the stream has yet to give.
ReadWholeInput_open ==
  /\ pc = "ReadWholeInput"
  /\ Code' = BUF_SIZE
  /\ \E opens \in BOOLEAN :
       /\ ~Parameters.InputPath => opens
       /\ IF ~opens
          THEN /\ err' = "Couldn't open"
               /\ pc' = "exit"
               /\ ret' = EXIT_FAILURE
               /\ UNCHANGED <<input, rd>>
          ELSE /\ rd' = [ReadBytes |-> fread(input),
                         TotalReadBytes |-> fread(input)]
               /\ input' = input - fread(input)
               /\ pc' = "ReadLoop"
               /\ UNCHANGED <<err, ret>>
  /\ UNCHANGED <<args, Parameters, PTCLibrary, OutputFile, translate, wlvars, engvars>>

\* ReadWholeInput, lines 76-87: one iteration of the loop.
ReadWholeInput_loop ==
  /\ pc = "ReadLoop"
  /\ rd.ReadBytes > 0 /\ rd.TotalReadBytes < MAX_INPUT_BUFFER
  /\ Code' = rd.TotalReadBytes + BUF_SIZE
  /\ rd' = [ReadBytes |-> fread(input),
            TotalReadBytes |-> rd.TotalReadBytes + fread(input)]
  /\ input' = input - fread(input)
  /\ UNCHANGED <<args, pc, Parameters, ret, err, PTCLibrary, OutputFile, translate,
                 wlvars, engvars>>

\* A return that lets an input of exactly MAX_INPUT_BUFFER bytes through.
ReadWholeInput_return_lenient ==
  /\ pc = "ReadLoop"
  /\ ~(rd.ReadBytes > 0 /\ rd.TotalReadBytes < MAX_INPUT_BUFFER)
  /\ Code' = rd.TotalReadBytes
  /\ IF rd.TotalReadBytes > MAX_INPUT_BUFFER
     THEN err' = "Input too large." /\ pc' = "exit" /\ ret' = EXIT_FAILURE
     ELSE err' = err /\ pc' = "Translate" /\ ret' = ret
  /\ UNCHANGED <<args, Parameters, PTCLibrary, OutputFile, input, rd, translate,
                 wlvars, engvars>>

\* ReadWholeInput, lines 89-97, and main's line 248: the loop has ended.
ReadWholeInput_return ==
  /\ pc = "ReadLoop"
  /\ ~(rd.ReadBytes > 0 /\ rd.TotalReadBytes < MAX_INPUT_BUFFER)
  /\ Code' = rd.TotalReadBytes
  /\ IF rd.TotalReadBytes >= MAX_INPUT_BUFFER
     THEN err' = "Input too large." /\ pc' = "exit" /\ ret' = EXIT_FAILURE
     ELSE err' = err /\ pc' = "Translate" /\ ret' = ret
  /\ UNCHANGED <<args, Parameters, PTCLibrary, OutputFile, input, rd, translate,
                 wlvars, engvars>>

\* main, lines 251-256: the ArrayRef handed to Translate starts at
\* Code.data() + Offset and has Code.size() - Offset elements, a size_t.
Main_Translate ==
  /\ pc = "Translate"
  /\ translate' = [called |-> TRUE,
                   start |-> Parameters.Offset,
                   length |-> (Code - Parameters.Offset + SizeMod) % SizeMod,
                   debug |-> Parameters.DebugInfo]
  /\ pc' = "exit"
  /\ ret' = EXIT_SUCCESS
  /\ UNCHANGED <<args, Parameters, err, PTCLibrary, OutputFile, Code, input, rd, wlvars, engvars>>

\* ------------------------------------------------- the translation engine
\*
\* Translate, which main calls at line 251, is declared in ptctollvmir.h and
\* defined outside src/main.cpp.  It is modelled from the specification's
\* component design: the Decoder Adapter, the Worklist Manager (on the two
\* containers above), the Block Translator and the CFG Stitcher.

\* The addresses of the region, and the addresses an instruction may name:
\* CodeLen is an address out of range.
Addresses == 0 .. CodeLen - 1
Targets == 0 .. CodeLen

\* The target of an edge that has none.
NoTarget == CodeLen + 1

\* The instructions of the region: "op" is an instruction that transfers no
\* control, "bad" an encoding the decoder rejects.  An instruction is one
\* address long and yields one operation.
Instrs ==
  {[kind |-> k, target |-> NoTarget] : k \in {"op", "ret", "bad"}}
    \cup {[kind |-> k, target |-> t] : k \in {"jmp", "jcc", "call"}, t \in Targets}

\* decodeOne(buffer, address).
decodeOne(buffer, address) ==
  IF address \notin DOMAIN buffer \/ buffer[address].kind = "bad"
  THEN [failure |-> TRUE, ops |-> <<>>, nextAddress |-> address,
        instr |-> [kind |-> "bad", target |-> NoTarget]]
  ELSE [failure |-> FALSE, ops |-> <<address>>, nextAddress |-> address + 1,
        instr |-> buffer[address]]

\* The address after the last one a block holds operations for.
BlockEnd(B) == B.entry + Len(B.ops)

\* address lies strictly inside a block of the arena.
Interior(ar, address) ==
  \E i \in DOMAIN ar : ar[i].entry < address /\ address < BlockEnd(ar[i])

\* A lookup that never finds a block.
Lookup_miss(bAt, address) == 0

\* The address->block map: the arena index of the block whose entry is
\* address, 0 if there is none.
Lookup(bAt, address) == bAt[address]

\* The Worklist Manager's insert(addr): a no-op if addr has a finalized
\* block of its own or is queued or stacked; call targets go to the address
\* queue, all others to the address stack.
WorklistInsert(w, bAt, addr, edgeKind) ==
  IF Lookup(bAt, addr) # 0 THEN w
  ELSE IF SetCount(w.stack.Set, addr) > 0 \/ SetCount(w.queue.Set, addr) > 0 THEN w
  ELSE IF edgeKind = "call"
       THEN [w EXCEPT !.queue = UniquedQueue_insert(w.queue, addr, TRUE)]
       ELSE [w EXCEPT !.stack = UniquedStack_insert(w.stack, addr, TRUE)]

\* insert of the target of every edge of es that has one, in order.
RECURSIVE InsertAll(_, _, _)
InsertAll(w, bAt, es) ==
  IF es = <<>> THEN w
  ELSE InsertAll(IF Head(es).target = NoTarget THEN w
                 ELSE WorklistInsert(w, bAt, Head(es).target, Head(es).kind),
                 bAt, Tail(es))

\* The Block Translator's loop from start: decode at the cursor and append
\* until a terminal operation, a decode failure, or an address that a
\* closed block already holds.  stop is the cursor at the close.
RECURSIVE DecodeRun(_, _, _, _, _, _)
DecodeRun(buffer, ar, bAt, start, cursor, ops) ==
  IF cursor # start /\ (Lookup(bAt, cursor) # 0 \/ Interior(ar, cursor))
  THEN [ops |-> ops, term |-> "fallthrough", stop |-> cursor, target |-> cursor]
  ELSE LET d == decodeOne(buffer, cursor)
       IN IF d.failure
          THEN [ops |-> ops, term |-> "fail", stop |-> cursor, target |-> NoTarget]
          ELSE IF d.instr.kind = "op"
          THEN DecodeRun(buffer, ar, bAt, start, d.nextAddress, ops \o d.ops)
          ELSE [ops |-> ops \o d.ops, term |-> d.instr.kind, stop |-> d.nextAddress,
                target |-> d.instr.target]

Edge(src, target, edgeKind) == [src |-> src, target |-> target, kind |-> edgeKind]

\* A decode failure that closes the block with a fallthrough edge.
PendingEdges_failFallsThrough(idx, r) ==
  IF r.term = "jmp" THEN <<Edge(idx, r.target, "direct")>>
  ELSE IF r.term = "jcc"
  THEN <<Edge(idx, r.target, "conditional"), Edge(idx, r.stop, "fallthrough")>>
  ELSE IF r.term = "call"
  THEN <<Edge(idx, r.target, "call"), Edge(idx, r.stop, "fallthrough")>>
  ELSE IF r.term = "ret" THEN <<Edge(idx, NoTarget, "indirect")>>
  ELSE <<Edge(idx, r.stop, "fallthrough")>>

\* The PendingEdges a block records when it closes, taken edge first.
PendingEdges(idx, r) ==
  IF r.term = "jmp" THEN <<Edge(idx, r.target, "direct")>>
  ELSE IF r.term = "jcc"
  THEN <<Edge(idx, r.target, "conditional"), Edge(idx, r.stop, "fallthrough")>>
  ELSE IF r.term = "call"
  THEN <<Edge(idx, r.target, "call"), Edge(idx, r.stop, "fallthrough")>>
  ELSE IF r.term = "ret" THEN <<Edge(idx, NoTarget, "indirect")>>
  ELSE IF r.term = "fail" THEN <<>>
  ELSE <<Edge(idx, r.stop, "fallthrough")>>

\* A split that leaves the edges of the original block on the prefix.
Split_edgesStay(ar, bAt, pend, ak) ==
  IF ~Interior(ar, ak) THEN [arena |-> ar, blockAt |-> bAt, pending |-> pend]
  ELSE LET i == CHOOSE k \in DOMAIN ar : ar[k].entry < ak /\ ak < BlockEnd(ar[k])
           j == Len(ar) + 1
       IN [arena |->
             Append([ar EXCEPT ![i] = [entry |-> ar[i].entry,
                                       ops |-> SelectSeq(ar[i].ops, LAMBDA o : o < ak),
                                       term |-> "fallthrough"]],
                    [entry |-> ak,
                     ops |-> SelectSeq(ar[i].ops, LAMBDA o : o >= ak),
                     term |-> ar[i].term]),
           blockAt |-> [bAt EXCEPT ![ak] = j],
           pending |-> pend \cup {Edge(i, ak, "fallthrough")}]

\* The CFG Stitcher's split at ak: the block that holds ak in its interior
\* is truncated there, a new block takes the operations from ak on and the
\* edges of the original, and the prefix gains a fallthrough edge to it.
\* At an address that is in no block's interior nothing is done.
Split(ar, bAt, pend, ak) ==
  IF ~Interior(ar, ak) THEN [arena |-> ar, blockAt |-> bAt, pending |-> pend]
  ELSE LET i == CHOOSE k \in DOMAIN ar : ar[k].entry < ak /\ ak < BlockEnd(ar[k])
           j == Len(ar) + 1
       IN [arena |->
             Append([ar EXCEPT ![i] = [entry |-> ar[i].entry,
                                       ops |-> SelectSeq(ar[i].ops, LAMBDA o : o < ak),
                                       term |-> "fallthrough"]],
                    [entry |-> ak,
                     ops |-> SelectSeq(ar[i].ops, LAMBDA o : o >= ak),
                     term |-> ar[i].term]),
           blockAt |-> [bAt EXCEPT ![ak] = j],
           pending |-> {e \in pend : e.src # i}
                         \cup {Edge(j, e.target, e.kind) : e \in {x \in pend : x.src = i}}
                         \cup {Edge(i, ak, "fallthrough")}]

\* The addresses in the worklist.
Waiting(w) == Range(w.stack.Queue) \cup Range(w.queue.Queue)

\* One iteration of the main loop: pop an address (the stack first, the
\* queue when the stack is empty) and either find its block in the map,
\* split the block that holds it, or translate a new block from it, record
\* its PendingEdges and insert their targets.
EngineStep ==
  /\ phase = "translate"
  /\ ~(Empty(addrStack) /\ Empty(addrQueue))
  /\ LET fromStack == ~Empty(addrStack)
         popped == IF fromStack THEN UniquedStack_pop(addrStack, Crash)
                   ELSE UniquedQueue_pop(addrQueue, Crash)
         a == popped.Result
         w0 == [stack |-> IF fromStack THEN popped ELSE addrStack,
                queue |-> IF fromStack THEN addrQueue ELSE popped]
     IN IF Lookup(blockAt, a) # 0
        THEN /\ addrStack' = w0.stack
             /\ addrQueue' = w0.queue
             /\ last' = [op |-> "found", addr |-> a]
             /\ UNCHANGED <<arena, blockAt, pending, diag>>
        ELSE IF Interior(arena, a)
        THEN LET s == Split(arena, blockAt, pending, a)
             IN /\ arena' = s.arena
                /\ blockAt' = s.blockAt
                /\ pending' = s.pending
                /\ addrStack' = w0.stack
                /\ addrQueue' = w0.queue
                /\ last' = [op |-> "split", addr |-> a]
                /\ UNCHANGED diag
        ELSE LET r == DecodeRun(prog, arena, blockAt, a, a, <<>>)
                 idx == Len(arena) + 1
                 es == PendingEdges(idx, r)
                 bAt == [blockAt EXCEPT ![a] = idx]
                 w1 == InsertAll(w0, bAt, es)
             IN /\ arena' = Append(arena, [entry |-> a, ops |-> r.ops, term |-> r.term])
                /\ blockAt' = bAt
                /\ pending' = pending \cup Range(es)
                /\ addrStack' = w1.stack
                /\ addrQueue' = w1.queue
                /\ diag' = IF r.term = "fail"
                           THEN diag \cup {[kind |-> "decode failure", addr |-> r.stop,
                                            waiting |-> Waiting(w0)]}
                           ELSE diag
                /\ last' = [op |-> "translate", addr |-> a]
  /\ UNCHANGED <<prog, resolved, phase, wlvars, mainvars>>

\* The resolution pass, once the worklist is empty: every PendingEdge whose
\* target has a block becomes an edge to that block, an indirect edge stays
\* without one, and an edge whose target has no block is dropped with a
\* diagnostic.
Resolve ==
  /\ phase = "translate"
  /\ Empty(addrStack) /\ Empty(addrQueue)
  /\ resolved' =
       {[src |-> e.src, target |-> e.target, kind |-> e.kind,
         dst |-> IF e.kind = "indirect" THEN 0 ELSE Lookup(blockAt, e.target)] :
          e \in {x \in pending : x.kind = "indirect" \/ Lookup(blockAt, x.target) # 0}}
  /\ diag' = diag \cup {[kind |-> "unreachable target", addr |-> e.target, waiting |-> {}] :
                          e \in {x \in pending :
                                   x.kind # "indirect" /\ Lookup(blockAt, x.target) = 0}}
  /\ pending' = {}
  /\ phase' = "done"
  /\ last' = [op |-> "resolve", addr |-> 0]
  /\ UNCHANGED <<prog, arena, blockAt, addrStack, addrQueue, wlvars, mainvars>>

\* The engine at rest, for the runs of the driver or of a container alone.
IdleEngine ==
  /\ prog = [a \in Addresses |-> [kind |-> "op", target |-> NoTarget]]
  /\ arena = <<>>
  /\ blockAt = [a \in Targets |-> 0]
  /\ addrStack = EmptyObject
  /\ addrQueue = EmptyObject
  /\ pending = {}
  /\ resolved = {}
  /\ diag = {}
  /\ phase = "done"
  /\ last = [op |-> "none", addr |-> 0]

\* The driver at rest, for the runs of a container alone.
IdleMain ==
  /\ args = [Architecture |-> nullptr, OffsetString |-> nullptr,
             DebugString |-> nullptr, Argc |-> 0]
  /\ pc = "exit"
  /\ Parameters = ZeroParameters
  /\ ret = Running
  /\ err = ""
  /\ PTCLibrary = FALSE
  /\ OutputFile = FALSE
  /\ Code = 0
  /\ input = 0
  /\ rd = [ReadBytes |-> 0, TotalReadBytes |-> 0]
  /\ translate = NoTranslate

\* A freshly constructed container of either class, in a build with or
\* without NDEBUG, and the driver at rest.
InitWorklist ==
  /\ kind \in {"queue", "stack"}
  /\ ndebug \in BOOLEAN
  /\ wl = [i \in Inst |-> EmptyObject]
  /\ call = <<"new", 0>>
  /\ hist = [i \in Inst |-> EmptyHistory]
  /\ IdleMain
  /\ IdleEngine

NextWorklist ==
  \/ \E b \in Blocks, parent \in BOOLEAN : Insert(b, parent)
  \/ Pop
  \/ DoReverse

\* No container in use, for the runs of the driver alone.
IdleWorklist ==
  /\ kind = "queue"
  /\ ndebug = FALSE
  /\ wl = [i \in Inst |-> EmptyObject]
  /\ call = <<"new", 0>>
  /\ hist = [i \in Inst |-> EmptyHistory]

Init ==
  /\ InitMain
  /\ IdleWorklist
  /\ IdleEngine

Next ==
  \/ Main_parseArgs
  \/ Main_loadPTCLibrary
  \/ Main_openOutput
  \/ ReadWholeInput_open
  \/ ReadWholeInput_loop
  \/ ReadWholeInput_return
  \/ Main_Translate

\* One run of main().
Spec == Init /\ [][Next]_vars

\* A sequence of calls on one container object.
SpecWorklist == InitWorklist /\ [][NextWorklist]_vars

\* main() started with a command line parseArgs accepts (zero, one or two
\* paths) on an input stream of a size in ReadSizes.
InitRead ==
  /\ args \in [Architecture : {Str(<<"a", "r", "m">>)},
               OffsetString : {nullptr},
               DebugString : {nullptr},
               Argc : 0 .. 2]
  /\ pc = "parseArgs"
  /\ Parameters = ZeroParameters
  /\ ret = Running
  /\ err = ""
  /\ PTCLibrary = FALSE
  /\ OutputFile = FALSE
  /\ Code = 0
  /\ input \in ReadSizes
  /\ rd = [ReadBytes |-> 0, TotalReadBytes |-> 0]
  /\ translate = NoTranslate
  /\ IdleWorklist
  /\ IdleEngine

\* One run of main() on a large input.  main is one thread whose every
\* statement is executed once it is reached: a step that can be taken is
\* taken.
SpecRead == InitRead /\ [][Next]_vars /\ WF_vars(Next)

\* Translate called on a region of CodeLen instructions with entry address
\* 0, which seeds the address queue; the driver and the containers of
\* SpecWorklist at rest.
InitEngine ==
  /\ IdleMain
  /\ IdleWorklist
  /\ prog \in [Addresses -> Instrs]
  /\ arena = <<>>
  /\ blockAt = [a \in Targets |-> 0]
  /\ addrStack = EmptyObject
  /\ addrQueue = UniquedQueue_insert(EmptyObject, 0, TRUE)
  /\ pending = {}
  /\ resolved = {}
  /\ diag = {}
  /\ phase = "translate"
  /\ last = [op |-> "start", addr |-> 0]

NextEngine ==
  \/ EngineStep
  \/ Resolve

\* One run of the translation engine.
SpecEngine == InitEngine /\ [][NextEngine]_vars



\* ------------------------------------------------------------- claims

\* C1: after any sequence of insert, pop and reverse calls the ordered
\* container holds no element twice.
C1_NoDuplicates ==
  \A i \in Inst : Cardinality(Range(wl[i].Queue)) = Len(wl[i].Queue)

\* C1, witness: after a pop, insert was called on a queue with an element it
\* already holds below its back.
C1_Witness ==
  /\ kind = "queue"
  /\ \E i \in Inst, b \in Blocks :
       /\ call = <<"insert", b>>
       /\ Live(i)
       /\ hist[i].popped # {}
       /\ Len(wl[i].Queue) >= 2
       /\ Addr(i, b) \in Range(wl[i].Queue)
       /\ wl[i].Queue[Len(wl[i].Queue)] # Addr(i, b)

\* C2, as claimed: a block that pop has returned is never held again, so
\* each block is popped at most once.
C2_PoppedOnce ==
  \A i \in Inst : hist[i].popped \cap Range(Held(i)) = {}

\* C2, as amended: the entries held are the accepted insertions not popped
\* yet, one entry each, and a block that is not held (a popped one among
\* them) is not in Set, so that its next insert is accepted.
C2_HeldOncePerAcceptedInsert ==
  \A i \in Inst :
    /\ Len(wl[i].Queue) = Len(hist[i].accepted)
    /\ \A b \in Blocks :
         b \notin Range(Held(i)) => SetCount(wl[i].Set, Addr(i, b)) = 0

\* C2, witness: a block that pop has returned is held again.
C2_Witness ==
  \E i \in Inst : Live(i) /\ hist[i].popped \cap Range(Held(i)) # {}

\* C3: insert(x) on a container that holds x changes nothing: not the order,
\* size(), empty() or the membership set.
C3_InsertHeldIsNoOp ==
  [][\A i \in Inst, b \in Blocks :
       (call' = <<"insert", b>> /\ Live(i) /\ b \in Range(Held(i)))
         => /\ wl'[i] = wl[i]
            /\ Size(wl'[i]) = Size(wl[i])
            /\ Empty(wl'[i]) = Empty(wl[i])]_vars

\* C3, witness: insert was called on a stack with an element it holds below
\* its top.
C3_Witness ==
  /\ kind = "stack"
  /\ \E i \in Inst, b \in Blocks :
       /\ call = <<"insert", b>>
       /\ Live(i)
       /\ ~hist[i].reversed
       /\ Len(wl[i].Queue) >= 2
       /\ Addr(i, b) \in Range(wl[i].Queue)
       /\ wl[i].Queue[Len(wl[i].Queue)] # Addr(i, b)

\* C4: a pop of a UniquedQueue that holds something removes and returns the
\* held element whose accepted insertion is the oldest.
C4_Fifo ==
  [][\A i \in Inst :
       (kind = "queue" /\ call' = <<"pop", 0>> /\ Live(i) /\ Len(wl[i].Queue) > 0)
         => /\ wl'[i].Result = Addr(i, Head(HeldByAge(i)))
            /\ Len(wl'[i].Queue) = Len(wl[i].Queue) - 1
            /\ wl'[i].Result \notin Range(wl'[i].Queue)]_vars

\* C4, witness: pop has returned an element of a queue that held several.
C4_Witness ==
  /\ kind = "queue"
  /\ call = <<"pop", 0>>
  /\ \E i \in Inst :
       Live(i) /\ wl[i].Result \in Pointers(i) /\ Len(wl[i].Queue) >= 1

\* C5: with no reverse call, a pop of a UniquedStack that holds something
\* removes and returns the held element whose accepted insertion is the
\* most recent.
C5_Lifo ==
  [][\A i \in Inst :
       (kind = "stack" /\ call' = <<"pop", 0>> /\ Live(i) /\ ~hist[i].reversed
          /\ Len(wl[i].Queue) > 0)
         => /\ wl'[i].Result = Addr(i, HeldByAge(i)[Len(HeldByAge(i))])
            /\ Len(wl'[i].Queue) = Len(wl[i].Queue) - 1
            /\ wl'[i].Result \notin Range(wl'[i].Queue)]_vars

\* C5, witness: pop has returned an element of a never reversed stack that
\* held several.
C5_Witness ==
  /\ kind = "stack"
  /\ call = <<"pop", 0>>
  /\ \E i \in Inst :
       /\ Live(i)
       /\ ~hist[i].reversed
       /\ wl[i].Result \in Pointers(i)
       /\ Len(wl[i].Queue) >= 1

\* C6, as claimed: pop() on an empty container returns no element and leaves
\* the container empty and otherwise unchanged.
C6_PopEmptyReturnsNothing ==
  [][\A i \in Inst :
       (call' = <<"pop", 0>> /\ Live(i) /\ Empty(wl[i]))
         => wl'[i] = [wl[i] EXCEPT !.Result = NoResult]]_vars

\* C7, as claimed: two instances whose sets order the elements differently
\* and that are driven by the same calls return the same logical element
\* from every pop and agree on size() and empty().
C7_OrderIndependent ==
  \A i, j \in Inst :
    /\ BlockOf(i, wl[i].Result) = BlockOf(j, wl[j].Result)
    /\ (wl[i].Result = NoResult) = (wl[j].Result = NoResult)
    /\ Size(wl[i]) = Size(wl[j])
    /\ Empty(wl[i]) = Empty(wl[j])

\* C7, restricted to the calls the source defines (no pop of an empty
\* container, no failed assert): the instances agree.
C7_DefinedCallsAgree ==
  \A i, j \in Inst :
    (Live(i) /\ Live(j))
      => /\ BlockOf(i, wl[i].Result) = BlockOf(j, wl[j].Result)
         /\ Held(i) = Held(j)
         /\ Size(wl[i]) = Size(wl[j])
         /\ Empty(wl[i]) = Empty(wl[j])


\* The messages parseArgs and loadPTCLibrary print.
ParseErrors ==
  {"Please specify the input architecture.", "-o parameter is not a number.",
   "Unexpected value for the -g parameter.", "Too many arguments."}

LibraryErrors ==
  {"Couldn't load the PTC library", "Couldn't find ptc_load",
   "Couldn't find PTC functions."}

AcceptedDebugValues == {<<"n", "o", "n", "e">>, <<"a", "s", "m">>, <<"p", "t", "c">>}

\* The command line holds one of the configuration errors of C8.
ArgumentError ==
  \/ args.Architecture.null
  \/ ~args.OffsetString.null /\ sscanf_lld(args.OffsetString.s).ret # 1
  \/ ~args.DebugString.null /\ args.DebugString.s \notin AcceptedDebugValues
  \/ args.Argc > 2

\* C8: on a configuration error (a bad command line, or the decoder library
\* or its entry point failing to load) main goes no further than
\* loadPTCLibrary, returns EXIT_FAILURE, never calls Translate and never
\* opens the output file.
C8_ConfigErrorsStopEarly ==
  /\ ArgumentError
       => /\ pc \in {"parseArgs", "exit"}
          /\ ~translate.called /\ ~OutputFile
          /\ pc = "exit" => ret = EXIT_FAILURE /\ err \in ParseErrors
  /\ err \in LibraryErrors
       => /\ pc = "exit" /\ ret = EXIT_FAILURE
          /\ ~translate.called /\ ~OutputFile

\* C8, witness: main has returned because ptc_load failed, with an output
\* path on the command line.
C8_Witness ==
  /\ pc = "exit"
  /\ err = "Couldn't find PTC functions."
  /\ PTCLibrary
  /\ Parameters.OutputPath
  /\ ret = EXIT_FAILURE

\* C9: a -g value that parseArgs gets to is accepted iff it is exactly none,
\* asm or ptc, selecting None, OriginalAssembly or PTC; with any other -g
\* value main returns EXIT_FAILURE from parseArgs and Translate is not
\* called.
C9_DebugSelector ==
  (pc # "parseArgs" /\ ~args.DebugString.null)
    => LET s == args.DebugString.s
           selects(v) ==
             /\ err # "Unexpected value for the -g parameter."
             /\ err \notin ParseErrors
                  => Parameters.DebugInfo = v /\ (translate.called => translate.debug = v)
       IN IF s = <<"n", "o", "n", "e">> THEN selects("None")
          ELSE IF s = <<"a", "s", "m">> THEN selects("OriginalAssembly")
          ELSE IF s = <<"p", "t", "c">> THEN selects("PTC")
          ELSE /\ pc = "exit" /\ ret = EXIT_FAILURE /\ err \in ParseErrors
               /\ Parameters.DebugInfo = "Zero"
               /\ ~translate.called
               /\ (~args.Architecture.null
                     /\ (args.OffsetString.null \/ sscanf_lld(args.OffsetString.s).ret = 1))
                    => err = "Unexpected value for the -g parameter."

\* C9, witness: Translate was called with -g asm on the command line.
C9_Witness ==
  /\ args.DebugString = Str(<<"a", "s", "m">>)
  /\ translate.called
  /\ translate.debug = "OriginalAssembly"

\* C10, as claimed: the start offset handed to Translate is 0 when -o is
\* absent and, when -o is given, the integer written there, which is not
\* negative.
C10_OffsetAsWritten ==
  translate.called
    => IF args.OffsetString.null THEN translate.start = 0
       ELSE /\ sscanf_lld(args.OffsetString.s).val >= 0
            /\ translate.start = sscanf_lld(args.OffsetString.s).val

\* C14, as claimed: the range handed to Translate lies inside the bytes that
\* were read: Offset <= Code.size(), and the length, computed on size_t, is
\* the difference of the two and has not wrapped.
C14_RangeInsideCode ==
  translate.called
    => /\ translate.start <= Code
       /\ translate.length = Code - translate.start
       /\ translate.start + translate.length <= Code

\* C15, as claimed: in every reachable state the membership set holds
\* exactly the elements of the ordered container, size() is the cardinality
\* of the set and empty() holds exactly when the set is empty.
C15_SetMirrorsQueue ==
  \A i \in Inst :
    /\ Range(wl[i].Set) = Range(wl[i].Queue)
    /\ Size(wl[i]) = Cardinality(Range(wl[i].Set))
    /\ Empty(wl[i]) <=> Range(wl[i].Set) = {}

\* C15, restricted to the calls the source defines (no pop of an empty
\* container, no failed assert): the same statement holds.
C15_DefinedCallsMirror ==
  \A i \in Inst :
    Live(i)
      => /\ Range(wl[i].Set) = Range(wl[i].Queue)
         /\ Size(wl[i]) = Cardinality(Range(wl[i].Set))
         /\ Empty(wl[i]) <=> Range(wl[i].Set) = {}


ReadOutcome ==
  /\ (pc = "Translate" \/ translate.called)
       => /\ rd.TotalReadBytes < MAX_INPUT_BUFFER
          /\ Code = rd.TotalReadBytes
  /\ err = "Couldn't open"
       => pc = "exit" /\ ret = EXIT_FAILURE /\ ~translate.called
  /\ (pc \notin {"ReadWholeInput", "ReadLoop"} /\ rd.TotalReadBytes >= MAX_INPUT_BUFFER)
       => /\ pc = "exit" /\ ret = EXIT_FAILURE /\ ~translate.called
          /\ err = "Input too large."

\* C17: ReadWholeInput terminates on every finite input stream (main
\* reaches its return), returns EXIT_SUCCESS only with fewer than
\* MAX_INPUT_BUFFER bytes read, Code.size() being that number, and on a
\* file that does not open or an input that reaches MAX_INPUT_BUFFER
\* returns EXIT_FAILURE, after which main does not call Translate.
C17_ReadTerminatesWithinLimit ==
  /\ []ReadOutcome
  /\ <>(pc = "exit")

\* C17, witness: Translate was called on an input one byte short of the
\* limit, read in full.
C17_Witness ==
  /\ translate.called
  /\ input = 0
  /\ Code = MAX_INPUT_BUFFER - 1
  /\ translate.length = MAX_INPUT_BUFFER - 1


\* The edges that leave block k, as target and kind.
OutEdges(pe, k) == {[target |-> e.target, kind |-> e.kind] : e \in {x \in pe : x.src = k}}

RECURSIVE TotalOps(_)
TotalOps(ar) == IF ar = <<>> THEN 0 ELSE Len(Head(ar).ops) + TotalOps(Tail(ar))

\* C11: no two blocks have the same entry Address, the address->block map
\* leads to the block of that entry, and after the resolution pass every
\* edge with a target leads to the one block created for its target, so
\* that edges from different sources to one Address lead to the same block.
C11_OneBlockPerEntry ==
  /\ \A i, j \in DOMAIN arena : arena[i].entry = arena[j].entry => i = j
  /\ \A a \in Targets :
       blockAt[a] # 0 => blockAt[a] \in DOMAIN arena /\ arena[blockAt[a]].entry = a
  /\ phase = "done"
       => /\ \A d \in diag : d.kind # "unreachable target"
          /\ \A e \in resolved :
               e.kind # "indirect"
                 => {k \in DOMAIN arena : arena[k].entry = e.target} = {e.dst}
          /\ \A e1, e2 \in resolved :
               (e1.kind # "indirect" /\ e2.kind # "indirect" /\ e1.target = e2.target)
                 => e1.dst = e2.dst

\* C11, witness: after the resolution pass two call edges from different
\* blocks lead to the one block of their common target.
C11_Witness ==
  /\ phase = "done"
  /\ \E e1, e2 \in resolved :
       /\ e1.kind = "call" /\ e2.kind = "call"
       /\ e1.src # e2.src
       /\ e1.target = e2.target
       /\ e1.dst = e2.dst
       /\ arena[e1.dst].entry = e1.target

\* What C12 says of a step that splits at ak: the block B that held ak in
\* its interior is replaced by two, [a0, ak) in B's place with the single
\* edge fallthrough to ak, and [ak, aN) with B's outgoing edges; the
\* operations of the two are B's, and every other block and its edges stay.
SplitStep ==
  \A ak \in Targets :
    last' = [op |-> "split", addr |-> ak]
      => \E i \in DOMAIN arena :
           LET B == arena[i]
               j == Len(arena) + 1
           IN /\ B.entry < ak /\ ak < BlockEnd(B)
              /\ Len(arena') = j
              /\ \A k \in DOMAIN arena \ {i} :
                   arena'[k] = arena[k] /\ OutEdges(pending', k) = OutEdges(pending, k)
              /\ arena'[i].entry = B.entry /\ BlockEnd(arena'[i]) = ak
              /\ arena'[j].entry = ak /\ BlockEnd(arena'[j]) = BlockEnd(B)
              /\ arena'[i].ops \o arena'[j].ops = B.ops
              /\ OutEdges(pending', i) = {[target |-> ak, kind |-> "fallthrough"]}
              /\ OutEdges(pending', j) = OutEdges(pending, i)
              /\ TotalOps(arena') = TotalOps(arena)
              /\ blockAt' = [blockAt EXCEPT ![ak] = j]

\* A split at an address that is the entry or the end of a block changes
\* nothing.
SplitAtBoundaryIsNoOp ==
  \A a \in Targets :
    (\E k \in DOMAIN arena : arena[k].entry = a \/ BlockEnd(arena[k]) = a)
      => Split(arena, blockAt, pending, a)
           = [arena |-> arena, blockAt |-> blockAt, pending |-> pending]

\* C12: split correctness: every split step is as SplitStep says, and in
\* every state a split at a block boundary is a no-op.
C12_SplitCorrect ==
  /\ [][SplitStep]_vars
  /\ []SplitAtBoundaryIsNoOp

\* C12, witness: a block that ended in a conditional branch was split, and
\* the new block carries its two edges.
C12_Witness ==
  /\ last.op = "split"
  /\ arena # <<>>
  /\ arena[Len(arena)].entry = last.addr
  /\ arena[Len(arena)].term = "jcc"
  /\ Cardinality(OutEdges(pending, Len(arena))) = 2
  /\ \E i \in DOMAIN arena :
       /\ BlockEnd(arena[i]) = last.addr
       /\ arena[i].ops # <<>>
       /\ OutEdges(pending, i) = {[target |-> last.addr, kind |-> "fallthrough"]}

\* C13: decode-failure containment: a block closed by a decode failure ends
\* at the failing Address, which is recorded as a diagnostic, and has no
\* outgoing edge; every Address that was in the worklist at a decode
\* failure is still there or has been popped and has its block, and has
\* its block when the run is done.
C13_DecodeFailureContained ==
  /\ \A k \in DOMAIN arena :
       arena[k].term = "fail"
         => /\ \A e \in pending : e.src # k
            /\ \A e \in resolved : e.src # k
            /\ \E d \in diag : d.kind = "decode failure" /\ d.addr = BlockEnd(arena[k])
  /\ \A d \in diag :
       d.kind = "decode failure"
         => /\ \E k \in DOMAIN arena :
                 arena[k].term = "fail" /\ BlockEnd(arena[k]) = d.addr
            /\ \A a \in d.waiting :
                 /\ a \in Waiting([stack |-> addrStack, queue |-> addrQueue])
                      \/ blockAt[a] # 0
                 /\ phase = "done" => blockAt[a] # 0 /\ arena[blockAt[a]].entry = a

\* C13, witness: the run is done; a decode failure happened while an
\* Address was in the worklist, and that Address has a block with
\* operations that closed otherwise.
C13_Witness ==
  /\ phase = "done"
  /\ \E d \in diag :
       /\ d.kind = "decode failure"
       /\ \E a \in d.waiting :
            /\ blockAt[a] # 0
            /\ arena[blockAt[a]].ops # <<>>
            /\ arena[blockAt[a]].term # "fail"


==========================================================================
